---- MODULE Spec2Model ----
(***************************************************************************)
(* Batch rename planning and two-phase commit of the image renaming tool.  *)
(*                                                                         *)
(*   two_phase_rename            src/Tagtool/core/utils.py                 *)
(*   sanitize_and_upper          src/Tagtool/core/utils.py                 *)
(*   collect_existing_basenames  src/core/planner.py                       *)
(*   plan_name                   src/core/planner.py                       *)
(*                                                                         *)
(* Strings are sequences of one-character strings.  A file name handled by *)
(* the renamer is a sequence of symbols in which the symbol TMP stands for *)
(* the substring "__TMP__" and every other symbol for a piece of text that *)
(* does not contain it.                                                    *)
(***************************************************************************)
EXTENDS Integers, Sequences, FiniteSets, TLC

VARIABLES
    fs,        \* the filesystem: existing path -> content of the file there
    fs0,       \* the filesystem when two_phase_rename was called
    pairs,     \* the argument: a sequence of <<src, dst>>
    pc,        \* position of the call: "stage1", "stage2", "done", "raised"
    i,         \* index of the loop in progress
    tmp_map,   \* insertion-ordered dict tmp -> dst, as a sequence of records
    ok,        \* local counter ok
    fail,      \* local counter fail
    log,       \* history: one event per loop iteration executed so far
    folder,    \* names of the files in the destination directory at seeding
    existing,  \* the duplicate index shared by the plan_name calls
    duplicates,\* the duplicates option of the run
    calls,     \* history: one record per plan_name call made so far
    text,      \* the string handed to sanitize_and_upper
    token,     \* sanitize_and_upper(text), once computed
    token2,    \* sanitize_and_upper(token), once computed
    spc,       \* position of the sanitizer check: "input", "once", "twice"
    params,    \* AiWorker.params: out_root, clean_out, duplicates, dry_run
    images,    \* list(iter_images(...)): the listing of the run
    wpc,       \* position of AiWorker.run
    img_idx,   \* idx of enumerate(images, start=1) in the per-image loop
    cancel,    \* AiWorker._cancel
    cleaned_subdirs, \* set of sub-directories already prepared
    existing_map,    \* sub-directory -> its duplicate index
    rows,      \* ledger rows collected so far
    plan_pairs,\* queued <<src, dst>> plans
    ledger,    \* rename_mapping.csv: whether written, and its data rows
    stats,     \* the stats dict
    code,      \* exit code of the run
    progress,  \* history: values emitted on the progress signal
    finished,  \* history: <<code, stats>> emitted on the finished signal
    hist,      \* history: cleans, seedings, the break and the renamer call
    page,      \* AiTaskPage: its worker reference, its buttons, what it has seen
    runs,      \* two batch runs on one filesystem: run -> its position and data
    manual     \* ManualTaskPage: _images, _cur and the saves made so far

rvars == <<fs, fs0, pairs, pc, i, tmp_map, ok, fail, log>>
pvars == <<folder, existing, duplicates, calls>>
svars == <<text, token, token2, spc>>
wvars == <<params, images, wpc, img_idx, cancel, cleaned_subdirs, existing_map, rows,
           plan_pairs, ledger, stats, code, progress, finished, hist>>
xvars == <<page, runs, manual>>
vars == <<rvars, pvars, svars, wvars, xvars>>

\* Longest batch handed to two_phase_rename.
MaxPairs == 2

\* Longest sequence of plan_name calls on one index.
MaxCalls == 3

\* Longest string handed to sanitize_and_upper.
MaxLen == 4

\* Longest image listing of a run of the batch worker.
MaxImages == 2

\* Longest listing for which the progress values are computed.
MaxTotal == 12

\* Longest image list of the manual page, and most saves followed on it.
MaxManualImages == 3
MaxSaves == 3

(***************************************************************************)
(* Paths and the filesystem                                                *)
(***************************************************************************)
TMP == "__TMP__"

Path(d, n) == [dir |-> d, name |-> n]

PA  == Path("in",  <<"a">>)
PB  == Path("in",  <<"b">>)
PX  == Path("out", <<"x">>)
PMX == Path("out", <<TMP, "x">>)

\* The paths a batch may mention, and the files that may be there beforehand.
BasePaths == {PA, PB, PX, PMX}

NoPath == Path("", <<>>)
NoContent == ""

\* Every file starts with a content of its own.
ContentOf(p) ==
    CASE p = PA  -> "content-a"
      [] p = PB  -> "content-b"
      [] p = PX  -> "content-x"
      [] p = PMX -> "content-mx"

\* uuid.uuid4().hex of the k-th call: a fresh token each time.
UuidHex == <<"u1", "u2", "u3", "u4", "u5", "u6">>

\* Path.exists()
Exists(f, p) == p \in DOMAIN f

\* Path.with_name(n): same directory, new final component.
WithName(p, n) == Path(p.dir, n)

\* str.replace("__TMP__", ""): every occurrence of the marker is removed.
ReplaceMarker(n) == SelectSeq(n, LAMBDA s : s # TMP)

\* A successful Path.rename(a -> b), a # b and a existing: the file leaves a
\* and is at b afterwards; a file that was at b is replaced (os.rename on
\* POSIX).  Where the platform refuses an existing target, the call raises
\* instead, which is the raising branch of every action below.
Rename(f, a, b) ==
    [q \in (DOMAIN f \ {a}) \cup {b} |-> IF q = b THEN f[a] ELSE f[q]]

(***************************************************************************)
(* two_phase_rename                                                        *)
(***************************************************************************)
\* A renamer that skips the quarantine: the "temporary" path is the source.
TmpPathInPlace(k, src) == src

\* tmp = src.with_name(f"__TMP__{uuid.uuid4().hex}__{src.name}")
TmpPath(k, src) == WithName(src, <<TMP, UuidHex[k], "__">> \o src.name)

\* orig = dst.with_name(dst.name.replace("__TMP__", ""))
RollbackTarget(tmp, dst) == WithName(dst, ReplaceMarker(dst.name))

Event(e, s, d, o, c, dc) ==
    [ev |-> e, src |-> s, dst |-> d, orig |-> o, content |-> c, dstContent |-> dc]

\* The values of the variables of a component that is not running.
SanitizerIdle ==
    /\ text = <<>>
    /\ token = <<>>
    /\ token2 = <<>>
    /\ spc = "idle"

WorkerIdle ==
    /\ params = [out_root |-> <<>>, clean_out |-> FALSE, duplicates |-> TRUE,
                 dry_run |-> FALSE]
    /\ images = <<>>
    /\ wpc = "idle"
    /\ img_idx = 0
    /\ cancel = FALSE
    /\ cleaned_subdirs = {}
    /\ existing_map = <<>>
    /\ rows = <<>>
    /\ plan_pairs = <<>>
    /\ ledger = [written |-> FALSE, rows |-> <<>>]
    /\ stats = [total |-> 0, planned |-> 0, renamed_ok |-> 0, renamed_fail |-> 0]
    /\ code = 0
    /\ progress = <<>>
    /\ finished = <<>>
    /\ hist = <<>>

PageIdle ==
    page = [worker |-> FALSE, btn_start |-> TRUE, btn_stop |-> FALSE,
            waited |-> "no", delivered |-> 0,
            at |-> [wpc |-> "idle", visited |-> 0, observed |-> FALSE]]

RunsIdle == runs = <<>>

ManualIdle == manual = [images |-> <<>>, cur |-> -1, saves |-> <<>>]

OthersIdle ==
    /\ PageIdle
    /\ RunsIdle
    /\ ManualIdle

Batches ==
    UNION {[1..n -> BasePaths \X BasePaths] : n \in 0..MaxPairs}

RenameInit ==
    /\ pairs \in Batches
    /\ \E S \in SUBSET BasePaths : fs = [p \in S |-> ContentOf(p)]
    /\ fs0 = fs
    /\ pc = "stage1"
    /\ i = 1
    /\ tmp_map = <<>>
    /\ ok = 0
    /\ fail = 0
    /\ log = <<>>
    \* the planner is not running while a batch is renamed
    /\ folder = {}
    /\ existing = {}
    /\ duplicates = TRUE
    /\ calls = <<>>
    /\ SanitizerIdle
    /\ WorkerIdle
    /\ OthersIdle

\* if not src.exists(): continue
Stage1Skip ==
    /\ pc = "stage1" /\ i <= Len(pairs)
    /\ ~Exists(fs, pairs[i][1])
    /\ i' = i + 1
    /\ log' = Append(log, Event("skip", pairs[i][1], pairs[i][2], NoPath, NoContent, NoContent))
    /\ UNCHANGED <<fs, fs0, pairs, pc, tmp_map, ok, fail>>
    /\ UNCHANGED <<pvars, svars, wvars, xvars>>

\* src.rename(tmp) succeeded; tmp_map[tmp] = dst
Stage1Quarantine ==
    /\ pc = "stage1" /\ i <= Len(pairs)
    /\ Exists(fs, pairs[i][1])
    /\ LET src == pairs[i][1]
           dst == pairs[i][2]
           tmp == TmpPath(i, src)
       IN  /\ fs' = Rename(fs, src, tmp)
           /\ tmp_map' = Append(tmp_map, [tmp |-> tmp, dst |-> dst])
           /\ log' = Append(log, Event("quarantine", src, dst, tmp, fs[src], NoContent))
    /\ i' = i + 1
    /\ UNCHANGED <<fs0, pairs, pc, ok, fail>>
    /\ UNCHANGED <<pvars, svars, wvars, xvars>>

\* A stage 1 without its try/except: the error leaves the function.
Stage1RaisePropagates ==
    /\ pc = "stage1" /\ i <= Len(pairs)
    /\ Exists(fs, pairs[i][1])
    /\ pc' = "raised"
    /\ log' = Append(log, Event("s1raise", pairs[i][1], pairs[i][2], NoPath, fs[pairs[i][1]], NoContent))
    /\ UNCHANGED <<fs, fs0, pairs, i, tmp_map, ok, fail>>
    /\ UNCHANGED <<pvars, svars, wvars, xvars>>

\* src.rename(tmp) raised; except Exception: pass
Stage1Raise ==
    /\ pc = "stage1" /\ i <= Len(pairs)
    /\ Exists(fs, pairs[i][1])
    /\ i' = i + 1
    /\ log' = Append(log, Event("s1raise", pairs[i][1], pairs[i][2], NoPath, fs[pairs[i][1]], NoContent))
    /\ UNCHANGED <<fs, fs0, pairs, pc, tmp_map, ok, fail>>
    /\ UNCHANGED <<pvars, svars, wvars, xvars>>

\* end of the first loop; ok = 0; fail = 0
Stage1End ==
    /\ pc = "stage1" /\ i > Len(pairs)
    /\ pc' = "stage2"
    /\ i' = 1
    /\ ok' = 0
    /\ fail' = 0
    /\ UNCHANGED <<fs, fs0, pairs, tmp_map, log>>
    /\ UNCHANGED <<pvars, svars, wvars, xvars>>

\* if dst.exists(): fail += 1; try: tmp.rename(orig) except: pass; continue
Stage2Collision ==
    /\ pc = "stage2" /\ i <= Len(tmp_map)
    /\ Exists(fs, tmp_map[i].dst)
    /\ LET tmp  == tmp_map[i].tmp
           dst  == tmp_map[i].dst
           orig == RollbackTarget(tmp, dst)
       IN  \/ /\ orig.name # <<>>
              /\ fs' = Rename(fs, tmp, orig)
              /\ log' = Append(log, Event("rollback", tmp, dst, orig, fs[tmp], fs[dst]))
           \/ /\ fs' = fs
              /\ log' = Append(log, Event("rollbackraise", tmp, dst, orig, fs[tmp], fs[dst]))
    /\ fail' = fail + 1
    /\ i' = i + 1
    /\ UNCHANGED <<fs0, pairs, pc, tmp_map, ok>>
    /\ UNCHANGED <<pvars, svars, wvars, xvars>>

\* tmp.rename(dst) succeeded; ok += 1
Stage2Commit ==
    /\ pc = "stage2" /\ i <= Len(tmp_map)
    /\ ~Exists(fs, tmp_map[i].dst)
    /\ LET tmp == tmp_map[i].tmp
           dst == tmp_map[i].dst
       IN  /\ fs' = Rename(fs, tmp, dst)
           /\ log' = Append(log, Event("commit", tmp, dst, NoPath, fs[tmp], NoContent))
    /\ ok' = ok + 1
    /\ i' = i + 1
    /\ UNCHANGED <<fs0, pairs, pc, tmp_map, fail>>
    /\ UNCHANGED <<pvars, svars, wvars, xvars>>

\* tmp.rename(dst) raised; except Exception: fail += 1
Stage2Raise ==
    /\ pc = "stage2" /\ i <= Len(tmp_map)
    /\ ~Exists(fs, tmp_map[i].dst)
    /\ LET tmp == tmp_map[i].tmp
           dst == tmp_map[i].dst
       IN  log' = Append(log, Event("s2raise", tmp, dst, NoPath, fs[tmp], NoContent))
    /\ fail' = fail + 1
    /\ i' = i + 1
    /\ UNCHANGED <<fs, fs0, pairs, pc, tmp_map, ok>>
    /\ UNCHANGED <<pvars, svars, wvars, xvars>>

\* return ok, fail
Return ==
    /\ pc = "stage2" /\ i > Len(tmp_map)
    /\ pc' = "done"
    /\ UNCHANGED <<fs, fs0, pairs, i, tmp_map, ok, fail, log>>
    /\ UNCHANGED <<pvars, svars, wvars, xvars>>

RenameNext ==
    \/ Stage1Skip
    \/ Stage1Quarantine
    \/ Stage1Raise
    \/ Stage1End
    \/ Stage2Collision
    \/ Stage2Commit
    \/ Stage2Raise
    \/ Return

SpecRename == RenameInit /\ [][RenameNext]_vars

(***************************************************************************)
(* Reading the history                                                     *)
(***************************************************************************)
EventsOf(kinds) == {k \in 1..Len(log) : log[k].ev \in kinds}

Collisions == EventsOf({"rollback", "rollbackraise"})

\* The renames that raised a filesystem error in stage 1 and in stage 2.
Stage1Errors == EventsOf({"s1raise"})
Stage2Errors == EventsOf({"s2raise"})

NoRenameRaised == EventsOf({"s1raise", "s2raise", "rollbackraise"}) = {}

\* Some path holds content c.
OnDisk(c) == \E p \in DOMAIN fs : fs[p] = c

Sources == {pairs[k][1] : k \in 1..Len(pairs)}
Destinations == {pairs[k][2] : k \in 1..Len(pairs)}

DistinctExistingSources ==
    /\ \A j, k \in 1..Len(pairs) : pairs[j][1] = pairs[k][1] => j = k
    /\ Sources \subseteq DOMAIN fs0

(***************************************************************************)
(* C1: two_phase_rename never overwrites an existing file: a destination   *)
(* that exists when stage 2 reaches it still holds, after the call, the    *)
(* content it had at that moment.                                          *)
(***************************************************************************)
C1_NeverOverwrites ==
    pc = "done" =>
        \A k \in Collisions :
            /\ Exists(fs, log[k].dst)
            /\ fs[log[k].dst] = log[k].dstContent

(***************************************************************************)
(* C2: several existing sources of one batch target the same, initially    *)
(* absent, destination: exactly one success, every other pair failed, and  *)
(* the content of every source is still on disk (contents are distinct, so *)
(* they are then at pairwise distinct paths).  The stage-1 and commit      *)
(* renames are taken not to raise; the rollback may or may not.            *)
(***************************************************************************)
SameTargetBatch ==
    /\ Len(pairs) >= 2
    /\ DistinctExistingSources
    /\ \A k \in 1..Len(pairs) : pairs[k][2] = pairs[1][2]
    /\ ~Exists(fs0, pairs[1][2])

C2_SameTargetOneWinner ==
    (pc = "done" /\ SameTargetBatch /\ Stage1Errors = {} /\ Stage2Errors = {}) =>
        /\ ok = 1
        /\ fail = Len(pairs) - 1
        /\ \A s \in Sources : OnDisk(fs0[s])

(***************************************************************************)
(* C3: a source quarantined in stage 1 that fails stage 2 still exists on  *)
(* disk after the call, at its rollback name or at its quarantine name,    *)
(* and is not at the destination path.                                     *)
(***************************************************************************)
C3_FailedSourceKept ==
    pc = "done" =>
        \A k \in EventsOf({"s2raise", "rollback", "rollbackraise"}) :
            /\ \E p \in DOMAIN fs \ {log[k].dst} : fs[p] = log[k].content
            /\ ~(Exists(fs, log[k].dst) /\ fs[log[k].dst] = log[k].content)

(***************************************************************************)
(* C4: when the destinations are a permutation of the existing sources and *)
(* no rename raises, every content ends at its intended destination, no    *)
(* content is lost, and every pair is reported as a success.               *)
(***************************************************************************)
PermutationBatch ==
    /\ Len(pairs) >= 1
    /\ DistinctExistingSources
    /\ \A j, k \in 1..Len(pairs) : pairs[j][2] = pairs[k][2] => j = k
    /\ Destinations = Sources

C5_RollbackTowardOriginal ==
    /\ \A k \in Collisions :
           /\ log[k].orig = WithName(log[k].src, ReplaceMarker(log[k].src.name))
           /\ log[k].orig # log[k].dst
    /\ pc = "done" =>
           fail = Cardinality(Collisions) + Cardinality(Stage2Errors)

(***************************************************************************)
(* C6: a filesystem error raised by a rename in either phase is caught and *)
(* adds one to the returned fail count for that pair.                      *)
(***************************************************************************)
C6_EveryRenameErrorCounted ==
    pc = "done" =>
        fail = Cardinality(Stage1Errors) + Cardinality(Stage2Errors)
                 + Cardinality(Collisions)

LowerLetters == <<"a", "c", "g", "k", "n", "o", "p", "r", "t", "u", "w">>
UpperLetters == <<"A", "C", "G", "K", "N", "O", "P", "R", "T", "U", "W">>
DigitChars == <<"0", "1", "2", "3", "4", "5", "6", "7", "8", "9">>

Range(f) == {f[k] : k \in DOMAIN f}

\* The character class [A-Za-z0-9\-_] of _SANITIZE_RE.
LegalChars ==
    Range(LowerLetters) \cup Range(UpperLetters) \cup Range(DigitChars) \cup {"-", "_"}

Whitespace == {" "}

\* str.upper() and str.lower(), character by character.
UpperChar(c) ==
    IF c \in Range(LowerLetters)
    THEN UpperLetters[CHOOSE k \in DOMAIN LowerLetters : LowerLetters[k] = c]
    ELSE c

LowerChar(c) ==
    IF c \in Range(UpperLetters)
    THEN LowerLetters[CHOOSE k \in DOMAIN UpperLetters : UpperLetters[k] = c]
    ELSE c

UpperStr(s) == [k \in 1..Len(s) |-> UpperChar(s[k])]
LowerStr(s) == [k \in 1..Len(s) |-> LowerChar(s[k])]

\* str.strip(chars): drop the leading and the trailing characters in chars.
RECURSIVE LStrip(_, _)
LStrip(s, chars) ==
    IF s # <<>> /\ Head(s) \in chars THEN LStrip(Tail(s), chars) ELSE s

RECURSIVE RStrip(_, _)
RStrip(s, chars) ==
    IF s # <<>> /\ s[Len(s)] \in chars
    THEN RStrip(SubSeq(s, 1, Len(s) - 1), chars)
    ELSE s

StripChars(s, chars) == RStrip(LStrip(s, chars), chars)

\* _SANITIZE_RE.sub("-", s): every maximal run of characters outside the
\* class becomes one "-".
RECURSIVE SubIllegalRuns(_)
SubIllegalRuns(s) ==
    IF s = <<>> THEN <<>>
    ELSE IF Head(s) \in LegalChars
         THEN <<Head(s)>> \o SubIllegalRuns(Tail(s))
         ELSE <<"-">> \o SubIllegalRuns(LStrip(s, Range(s) \ LegalChars))

\* A sanitizer without the second substitution: runs of "-" are kept.
CollapseDashesOff(s) == s

\* re.sub(r"-{2,}", "-", s): every run of two or more "-" becomes one "-".
RECURSIVE CollapseDashes(_)
CollapseDashes(s) ==
    IF s = <<>> THEN <<>>
    ELSE IF Head(s) = "-"
         THEN <<"-">> \o CollapseDashes(LStrip(s, {"-"}))
         ELSE <<Head(s)>> \o CollapseDashes(Tail(s))

\* A sanitizer that trims the "-" before it substitutes instead of after.
sanitize_trim_first(s) ==
    UpperStr(CollapseDashes(SubIllegalRuns(StripChars(StripChars(s, Whitespace), {"-"}))))

sanitize_and_upper(s) ==
    UpperStr(StripChars(CollapseDashes(SubIllegalRuns(StripChars(s, Whitespace))), {"-"}))

\* str(idx) inside the f-string: the decimal digits of idx >= 0.
RECURSIVE DecimalStr(_)
DecimalStr(n) ==
    IF n < 10 THEN <<DigitChars[n + 1]>>
    ELSE DecimalStr(n \div 10) \o <<DigitChars[(n % 10) + 1]>>

\* The position of the last "." of a name, 0 when there is none.
RECURSIVE LastDot(_)
LastDot(name) ==
    IF name = <<>> THEN 0
    ELSE IF name[Len(name)] = "." THEN Len(name)
    ELSE LastDot(SubSeq(name, 1, Len(name) - 1))

\* PurePath.stem: the name without its last suffix; a leading or a trailing
\* dot starts no suffix.
PathStem(name) ==
    LET d == LastDot(name)
    IN  IF 1 < d /\ d < Len(name) THEN SubSeq(name, 1, d - 1) ELSE name

(***************************************************************************)
(* collect_existing_basenames and plan_name                                *)
(***************************************************************************)
\* exists.add(p.stem.upper()) for every file p of the folder
collect_existing_basenames(names) == {UpperStr(PathStem(n)) : n \in names}

\* stem = f"{base}-{idx}"
NumberedStem(base, idx) == base \o <<"-">> \o DecimalStr(idx)

\* A search that takes the first suffix without consulting the index.
FirstFreeUnchecked(base, idx, index) == idx

\* A search that only looks beyond the candidates an index of this size can
\* occupy.
FirstFreeBeyond(base, idx, index) == idx + Cardinality(index) + 1

\* while True: if stem not in existing: ... return; idx += 1
RECURSIVE FirstFree(_, _, _)
FirstFree(base, idx, index) ==
    IF NumberedStem(base, idx) \notin index
    THEN idx
    ELSE FirstFree(base, idx + 1, index)

\* A planner that forgets existing.add(stem).
plan_name_without_add(base, ext, index, dup) ==
    LET b == sanitize_and_upper(base)
        e == LowerStr(ext)
    IN  IF ~dup
        THEN [ret |-> b \o e, existing |-> index]
        ELSE [ret |-> NumberedStem(b, FirstFree(b, 1, index)) \o e,
              existing |-> index]

\* A planner that numbers the name whatever the duplicates option says.
plan_name_always_numbered(base, ext, index, dup) ==
    LET b    == sanitize_and_upper(base)
        e    == LowerStr(ext)
        stem == NumberedStem(b, FirstFree(b, 1, index))
    IN  [ret |-> stem \o e, existing |-> index \cup {stem}]

\* The returned name and the index as the call leaves it.
plan_name(base, ext, index, dup) ==
    LET b == sanitize_and_upper(base)
        e == LowerStr(ext)
    IN  IF ~dup
        THEN [ret |-> b \o e, existing |-> index]
        ELSE LET idx  == FirstFree(b, 1, index)
                 stem == NumberedStem(b, idx)
             IN  [ret |-> stem \o e, existing |-> index \cup {stem}]

TAG == <<"T", "A", "G">>
PNG == <<".", "p", "n", "g">>

\* Recognized texts handed to plan_name, and the suffixes of the images.
PlanBases == {TAG, <<"t", "a", "g">>, <<" ", "t", "#", " ", "-", "g", "-">>, <<>>}
PlanExts == {PNG, <<".", "P", "N", "G">>}

\* Files that may be in the destination directory beforehand.
FolderNames ==
    { TAG \o <<"-", "1">> \o PNG,
      <<"t", "a", "g", "-", "2", ".", "P", "N", "G">>,
      TAG \o PNG,
      <<"T", "-", "G", "-", "1">> \o PNG }

PlanInit ==
    /\ folder \in SUBSET FolderNames
    /\ existing = collect_existing_basenames(folder)
    /\ duplicates \in BOOLEAN
    /\ calls = <<>>
    \* no batch is being renamed while names are planned
    /\ fs = [p \in {} |-> NoContent]
    /\ fs0 = fs
    /\ pairs = <<>>
    /\ pc = "done"
    /\ i = 1
    /\ tmp_map = <<>>
    /\ ok = 0
    /\ fail = 0
    /\ log = <<>>
    /\ SanitizerIdle
    /\ WorkerIdle
    /\ OthersIdle

\* final = plan_name(base, ext, existing, duplicates)
PlanCall ==
    /\ Len(calls) < MaxCalls
    /\ \E base \in PlanBases, ext \in PlanExts :
          LET r == plan_name(base, ext, existing, duplicates)
          IN  /\ existing' = r.existing
              /\ calls' = Append(calls, [base |-> base, ext |-> ext,
                                         before |-> existing, ret |-> r.ret,
                                         after |-> r.existing])
    /\ UNCHANGED <<folder, duplicates>>
    /\ UNCHANGED <<rvars, svars, wvars, xvars>>

PlanNext == PlanCall

SpecPlan == PlanInit /\ [][PlanNext]_vars

(***************************************************************************)
(* C8: with duplicates enabled, the stems returned by a sequence of        *)
(* plan_name calls on one index seeded by collect_existing_basenames are   *)
(* pairwise distinct and none is a stem of the seeded index; no returned   *)
(* name is the name of a file already in the destination directory.        *)
(***************************************************************************)
C8_PlannedStemsDistinct ==
    duplicates =>
        \A k \in 1..Len(calls) :
            /\ PathStem(calls[k].ret) \notin collect_existing_basenames(folder)
            /\ calls[k].ret \notin folder
            /\ \A j \in 1..(k - 1) : PathStem(calls[j].ret) # PathStem(calls[k].ret)

C8_Witness ==
    /\ duplicates
    /\ Len(calls) >= 3
    /\ TAG \o <<"-", "1">> \in collect_existing_basenames(folder)
    /\ TAG \o <<"-", "2">> \in collect_existing_basenames(folder)
    /\ calls[1].ret = TAG \o <<"-", "3">> \o PNG
    /\ calls[2].ret = TAG \o <<"-", "4">> \o PNG
    /\ calls[3].ret = TAG \o <<"-", "5">> \o PNG

(***************************************************************************)
(* C9: with duplicates enabled, plan_name returns sanitized base, "-", n   *)
(* and the lower-cased extension, n being the least integer >= 1 whose     *)
(* stem is not in the index, and leaves the index with exactly that stem   *)
(* added; from an empty index the first call for TAG, .png returns         *)
(* TAG-1.png and the second TAG-2.png.                                     *)
(***************************************************************************)
C9_LeastFreeSuffix ==
    duplicates =>
        /\ \A k \in 1..Len(calls) :
              LET c == calls[k]
                  b == sanitize_and_upper(c.base)
                  S(n) == b \o <<"-">> \o DecimalStr(n)
              IN  /\ \E n \in 1..(Cardinality(c.before) + 1) :
                         /\ c.ret = S(n) \o LowerStr(c.ext)
                         /\ S(n) \notin c.before
                         /\ \A m \in 1..(n - 1) : S(m) \in c.before
                         /\ c.after = c.before \cup {S(n)}
                  /\ c.before = IF k = 1 THEN collect_existing_basenames(folder)
                                ELSE calls[k - 1].after
        /\ existing = IF calls = <<>> THEN collect_existing_basenames(folder)
                      ELSE calls[Len(calls)].after
        /\ (/\ folder = {}
            /\ Len(calls) >= 2
            /\ calls[1].base = TAG /\ calls[1].ext = PNG
            /\ calls[2].base = TAG /\ calls[2].ext = PNG)
           => /\ calls[1].ret = <<"T", "A", "G", "-", "1", ".", "p", "n", "g">>
              /\ calls[2].ret = <<"T", "A", "G", "-", "2", ".", "p", "n", "g">>

C9_Witness ==
    /\ duplicates
    /\ folder = {}
    /\ Len(calls) = 2
    /\ calls[1].base = TAG /\ calls[1].ext = PNG
    /\ calls[2].base = TAG /\ calls[2].ext = PNG
    /\ calls[2].ret = <<"T", "A", "G", "-", "2", ".", "p", "n", "g">>
    /\ existing = {<<"T", "A", "G", "-", "1">>, <<"T", "A", "G", "-", "2">>}

(***************************************************************************)
(* C10, as amended: with duplicates disabled, plan_name returns exactly    *)
(* the sanitized base followed by the lower-cased extension, whatever the  *)
(* index holds, and leaves the index unchanged.                            *)
(***************************************************************************)
C10_NoSuffixWhenDisabled ==
    ~duplicates =>
        /\ \A k \in 1..Len(calls) :
              /\ calls[k].ret = sanitize_and_upper(calls[k].base) \o LowerStr(calls[k].ext)
              /\ calls[k].after = calls[k].before
              /\ calls[k].before = collect_existing_basenames(folder)
        /\ existing = collect_existing_basenames(folder)

\* C10 as stated: the returned name is the sanitized base followed by the
\* extension as it was passed.
C10_ExtensionAsPassed ==
    ~duplicates =>
        \A k \in 1..Len(calls) :
            /\ calls[k].ret = sanitize_and_upper(calls[k].base) \o calls[k].ext
            /\ calls[k].after = calls[k].before

C10_Witness ==
    /\ ~duplicates
    /\ Len(calls) >= 2
    /\ calls[1].base = TAG /\ calls[1].ext = <<".", "P", "N", "G">>
    /\ TAG \in calls[1].before
    /\ calls[1].ret = <<"T", "A", "G", ".", "p", "n", "g">>
    /\ calls[2].ret = calls[1].ret

(***************************************************************************)
(* sanitize_and_upper applied to one input, and then to its own output     *)
(***************************************************************************)
\* Characters of the inputs: a letter, a digit, "-", "_", a blank and a
\* character outside the class.
SanitizeChars == {"a", "1", "-", "_", " ", "#"}

SanitizeInputs == UNION {[1..n -> SanitizeChars] : n \in 0..MaxLen}

SanitizeInit ==
    /\ text \in SanitizeInputs
    /\ token = <<>>
    /\ token2 = <<>>
    /\ spc = "input"
    /\ fs = [p \in {} |-> NoContent]
    /\ fs0 = fs
    /\ pairs = <<>>
    /\ pc = "done"
    /\ i = 1
    /\ tmp_map = <<>>
    /\ ok = 0
    /\ fail = 0
    /\ log = <<>>
    /\ folder = {}
    /\ existing = {}
    /\ duplicates = TRUE
    /\ calls = <<>>
    /\ WorkerIdle
    /\ OthersIdle

\* token = sanitize_and_upper(text)
SanitizeOnce ==
    /\ spc = "input"
    /\ token' = sanitize_and_upper(text)
    /\ spc' = "once"
    /\ UNCHANGED <<text, token2>>
    /\ UNCHANGED <<rvars, pvars, wvars, xvars>>

\* token2 = sanitize_and_upper(token)
SanitizeTwice ==
    /\ spc = "once"
    /\ token2' = sanitize_and_upper(token)
    /\ spc' = "twice"
    /\ UNCHANGED <<text, token>>
    /\ UNCHANGED <<rvars, pvars, wvars, xvars>>

SanitizeNext ==
    \/ SanitizeOnce
    \/ SanitizeTwice

SpecSanitize == SanitizeInit /\ [][SanitizeNext]_vars

UpperAlnum == Range(UpperLetters) \cup Range(DigitChars)

\* (-?[A-Z0-9_])*$
RECURSIVE MatchesTail(_)
MatchesTail(s) ==
    \/ s = <<>>
    \/ /\ Head(s) \in UpperAlnum \cup {"_"}
       /\ MatchesTail(Tail(s))
    \/ /\ Len(s) >= 2
       /\ s[1] = "-"
       /\ s[2] \in UpperAlnum \cup {"_"}
       /\ MatchesTail(SubSeq(s, 3, Len(s)))

\* ^[A-Z0-9](-?[A-Z0-9_])*$
MatchesTokenRegex(s) ==
    s # <<>> /\ Head(s) \in UpperAlnum /\ MatchesTail(Tail(s))

\* ^[A-Z0-9_](-?[A-Z0-9_])*$
MatchesTokenRegexUnderscore(s) ==
    s # <<>> /\ Head(s) \in UpperAlnum \cup {"_"} /\ MatchesTail(Tail(s))

(***************************************************************************)
(* C13, as amended: sanitize_and_upper returns the empty string or a       *)
(* string matching ^[A-Z0-9_](-?[A-Z0-9_])*$: only A-Z 0-9 - _, the first  *)
(* and the last character not "-", never two consecutive "-".  The first   *)
(* character may be "_".                                                   *)
(***************************************************************************)
C13_TokenShape ==
    spc # "input" =>
        \/ token = <<>>
        \/ /\ MatchesTokenRegexUnderscore(token)
           /\ \A k \in 1..Len(token) : token[k] \in UpperAlnum \cup {"-", "_"}
           /\ token[1] # "-" /\ token[Len(token)] # "-"
           /\ \A k \in 1..(Len(token) - 1) : ~(token[k] = "-" /\ token[k + 1] = "-")

\* C13 as stated: the output is empty or matches ^[A-Z0-9](-?[A-Z0-9_])*$.
C13_TokenRegexAsStated ==
    spc # "input" => (token = <<>> \/ MatchesTokenRegex(token))

C13_Witness ==
    /\ spc = "once"
    /\ text = <<" ", "_", "#", "a">>
    /\ token = <<"_", "-", "A">>

(***************************************************************************)
(* C14: sanitize_and_upper is idempotent: applied to its own output it     *)
(* returns that output.                                                    *)
(***************************************************************************)
C14_Idempotent ==
    spc = "twice" => token2 = token

C14_Witness ==
    /\ spc = "twice"
    /\ text = <<"#", "a", " ", "1">>
    /\ token = <<"A", "-", "1">>
    /\ token2 = token

(***************************************************************************)
(* AiWorker.run: directories, images and collaborators                     *)
(***************************************************************************)
\* A directory is the sequence of its path components.
InDir   == <<"in">>
DirA    == <<"in", "a">>
DirAOut == <<"in", "a_output">>

\* p.out_root: a directory of its own, or the input directory itself.
OutRoots == {<<"out">>, InDir}

\* The images iter_images can list, in listing order.
ImgO  == Path(DirAOut, TAG \o <<"-", "1">> \o PNG)
ImgA1 == Path(DirA, <<"p", "1">> \o PNG)
ImgA2 == Path(DirA, <<"p", "2", ".", "P", "N", "G">>)
ImageUniverse == <<ImgO, ImgA1, ImgA2>>

\* A file that may already be in the output sub-directory out/a_output.
ExistingOut == Path(<<"out", "a_output">>, TAG \o <<"-", "1">> \o PNG)

RECURSIVE SeqOfIndices(_)
SeqOfIndices(S) ==
    IF S = {} THEN <<>>
    ELSE LET m == CHOOSE k \in S : \A j \in S : k <= j
         IN  <<ImageUniverse[m]>> \o SeqOfIndices(S \ {m})

Listings ==
    {SeqOfIndices(S) : S \in {T \in SUBSET DOMAIN ImageUniverse : Cardinality(T) <= MaxImages}}

\* rel = img_path.parent.relative_to(in_dir)
\* first = rel.parts[0] if rel.parts else in_dir.name
FirstOf(in_dir, parent) ==
    LET rel == SubSeq(parent, Len(in_dir) + 1, Len(parent))
    IN  IF rel # <<>> THEN rel[1] ELSE in_dir[Len(in_dir)]

\* f"{first}_output"
OutputName(first) ==
    CASE first = "a"        -> "a_output"
      [] first = "a_output" -> "a_output_output"
      [] first = "in"       -> "in_output"

\* sub_out = out_base / f"{first}_output"
SubOut(out_base, img) == out_base \o <<OutputName(FirstOf(InDir, img.dir))>>

IsPrefix(d, e) == Len(d) <= Len(e) /\ SubSeq(e, 1, Len(d)) = d

\* The files under a directory, at any depth.
FilesUnder(f, target) == {r \in DOMAIN f : IsPrefix(target, r.dir)}

\* safe_clean_dir(target): every entry under target is removed, except those
\* whose removal raised (except Exception: pass); target itself stays.
safe_clean_dir(f, target, kept) ==
    [q \in (DOMAIN f \ FilesUnder(f, target)) \cup kept |-> f[q]]

\* The names of the files directly in a folder: folder.glob("*"), p.is_file().
FileNamesIn(f, d) == {q.name : q \in {r \in DOMAIN f : r.dir = d}}

\* PurePath.suffix: the last suffix of the name, "" when there is none.
PathSuffix(name) ==
    LET d == LastDot(name)
    IN  IF 1 < d /\ d < Len(name) THEN SubSeq(name, d, Len(name)) ELSE <<>>

\* The reserved marker "[OCR错误]" that starts an error value of OCRClient.
OcrErrorMarker == <<"[", "O", "C", "R", "cuo", "wu", "]">>
UNKNOWN == <<"U", "N", "K", "N", "O", "W", "N">>

\* Values OCRClient.ocr can return: nothing, an error value, recognized
\* texts, and "UNKNOWN" when no API key is configured.
OcrValues == {<<>>, OcrErrorMarker \o <<"4", "0", "1">>, TAG, <<"#">>, UNKNOWN}

\* str.startswith
StartsWith(s, prefix) == IsPrefix(prefix, s)

\* A test that also rejects the value returned without an API key.
IsNoTextOrUnknown(t) == t = <<>> \/ StartsWith(t, OcrErrorMarker) \/ t = UNKNOWN

\* if not ocr_text or ocr_text.startswith("[OCR错误]")
IsNoText(t) == t = <<>> \/ StartsWith(t, OcrErrorMarker)

Row(img, t, b, final, status) ==
    [src_dir |-> img.dir, old_name |-> img.name, ocr_text |-> t, base |-> b,
     final_name |-> final, status |-> status]

Hist(e, d) ==
    [ev |-> e, dir |-> d, visited |-> Len(progress), nrows |-> Len(rows),
     nplans |-> Len(plan_pairs)]

ImageContent(q) ==
    CASE q = ImgO        -> "content-o"
      [] q = ImgA1       -> "content-a1"
      [] q = ImgA2       -> "content-a2"
      [] q = ExistingOut -> "content-e"

(***************************************************************************)
(* AiWorker.run                                                            *)
(***************************************************************************)
WorkerInit ==
    /\ params \in [out_root : OutRoots, clean_out : BOOLEAN, duplicates : BOOLEAN,
                   dry_run : BOOLEAN]
    /\ images \in Listings
    /\ \E E \in SUBSET {ExistingOut} :
          /\ E # {} => params.out_root = <<"out">>
          /\ fs = [q \in Range(images) \cup E |-> ImageContent(q)]
    /\ wpc = "start"
    /\ img_idx = 0
    /\ cancel = FALSE
    /\ cleaned_subdirs = {}
    /\ existing_map = <<>>
    /\ rows = <<>>
    /\ plan_pairs = <<>>
    /\ ledger = [written |-> FALSE, rows |-> <<>>]
    /\ stats = [total |-> 0, planned |-> 0, renamed_ok |-> 0, renamed_fail |-> 0]
    /\ code = 0
    /\ progress = <<>>
    /\ finished = <<>>
    /\ hist = <<>>
    \* two_phase_rename has not been called yet
    /\ fs0 = fs
    /\ pairs = <<>>
    /\ pc = "idle"
    /\ i = 1
    /\ tmp_map = <<>>
    /\ ok = 0
    /\ fail = 0
    /\ log = <<>>
    \* the stand-alone planner and sanitizer checks are not running
    /\ folder = {}
    /\ existing = {}
    /\ duplicates = TRUE
    /\ calls = <<>>
    /\ SanitizerIdle
    /\ OthersIdle

\* AiWorker.request_cancel(): self._cancel.set(), from the GUI thread at any
\* time.
RequestCancel ==
    /\ wpc \notin {"idle", "end"}
    /\ ~cancel
    /\ cancel' = TRUE
    /\ hist' = Append(hist, Hist("cancel", <<>>))
    /\ UNCHANGED <<params, images, wpc, img_idx, cleaned_subdirs, existing_map, rows,
                   plan_pairs, ledger, stats, code, progress, finished>>
    /\ UNCHANGED <<rvars, pvars, svars, xvars>>

\* An exception that reaches the try of run: except Exception: code = 1
Fatal ==
    /\ code' = 1
    /\ wpc' = "emit"

\* A fatal error that ends the run without the finished signal.
SetupRaiseSilent ==
    /\ wpc = "start"
    /\ code' = 1
    /\ wpc' = "end"
    /\ hist' = Append(hist, Hist("setup_raise", <<>>))
    /\ UNCHANGED <<params, images, img_idx, cancel, cleaned_subdirs, existing_map, rows,
                   plan_pairs, ledger, stats, progress, finished>>
    /\ UNCHANGED <<rvars, pvars, svars, xvars>>

\* ensure_dir(out_base), ensure_dir(crop_dir), Detector(...), OCRClient(...)
\* or iter_images raised: except Exception: code = 1
SetupRaise ==
    /\ wpc = "start"
    /\ Fatal
    /\ hist' = Append(hist, Hist("setup_raise", <<>>))
    /\ UNCHANGED <<params, images, img_idx, cancel, cleaned_subdirs, existing_map, rows,
                   plan_pairs, ledger, stats, progress, finished>>
    /\ UNCHANGED <<rvars, pvars, svars, xvars>>

\* if total == 0: self.finished.emit(0, stats); return
ListEmpty ==
    /\ wpc = "start"
    /\ images = <<>>
    /\ stats' = [stats EXCEPT !.total = 0]
    /\ finished' = Append(finished, [code |-> 0, stats |-> stats'])
    /\ wpc' = "end"
    /\ UNCHANGED <<params, images, img_idx, cancel, cleaned_subdirs, existing_map, rows,
                   plan_pairs, ledger, code, progress, hist>>
    /\ UNCHANGED <<rvars, pvars, svars, xvars>>

\* images = list(iter_images(...)); stats["total"] = total; the loop starts
ListSome ==
    /\ wpc = "start"
    /\ images # <<>>
    /\ stats' = [stats EXCEPT !.total = Len(images)]
    /\ img_idx' = 1
    /\ wpc' = "top"
    /\ UNCHANGED <<params, images, cancel, cleaned_subdirs, existing_map, rows,
                   plan_pairs, ledger, code, progress, finished, hist>>
    /\ UNCHANGED <<rvars, pvars, svars, xvars>>

\* enumerate(images, start=1) is exhausted
LoopExhausted ==
    /\ wpc = "top"
    /\ img_idx > Len(images)
    /\ wpc' = "ledger"
    /\ UNCHANGED <<params, images, img_idx, cancel, cleaned_subdirs, existing_map, rows,
                   plan_pairs, ledger, stats, code, progress, finished, hist>>
    /\ UNCHANGED <<rvars, pvars, svars, xvars>>

\* A break that also leaves the run: the ledger and the commit are skipped.
LoopBreakAbort ==
    /\ wpc = "top"
    /\ img_idx <= Len(images)
    /\ cancel
    /\ hist' = Append(hist, Hist("break", <<>>))
    /\ wpc' = "emit"
    /\ UNCHANGED <<params, images, img_idx, cancel, cleaned_subdirs, existing_map, rows,
                   plan_pairs, ledger, stats, code, progress, finished>>
    /\ UNCHANGED <<rvars, pvars, svars, xvars>>

\* if self._cancel.is_set(): break
LoopBreak ==
    /\ wpc = "top"
    /\ img_idx <= Len(images)
    /\ cancel
    /\ hist' = Append(hist, Hist("break", <<>>))
    /\ wpc' = "ledger"
    /\ UNCHANGED <<params, images, img_idx, cancel, cleaned_subdirs, existing_map, rows,
                   plan_pairs, ledger, stats, code, progress, finished>>
    /\ UNCHANGED <<rvars, pvars, svars, xvars>>

\* A progress value that counts the images still to come.
ProgressRemaining(idx, total) == ((total - idx) * 100) \div total

\* int(idx * 100 / total)
ProgressValue(idx, total) == (idx * 100) \div total

\* A preparation that forgets which sub-directories it has prepared.
MarkCleanedForgets(S, d) == S

\* cleaned_subdirs.add(sub_out)
MarkCleaned(S, d) == S \cup {d}

\* The head of an iteration: progress.emit, sub_out, the once-only
\* preparation of sub_out and the seeding of its duplicate index.
LoopEnter ==
    /\ wpc = "top"
    /\ img_idx <= Len(images)
    /\ ~cancel
    /\ progress' = Append(progress, ProgressValue(img_idx, Len(images)))
    /\ LET sub_out  == SubOut(params.out_root, images[img_idx])
           cleaning == sub_out \notin cleaned_subdirs /\ params.clean_out
           seeding  == sub_out \notin DOMAIN existing_map
           h1       == IF cleaning THEN <<Hist("clean", sub_out)>> ELSE <<>>
           h2       == IF seeding THEN <<Hist("seed", sub_out)>> ELSE <<>>
       IN  /\ IF cleaning
                THEN \E kept \in SUBSET FilesUnder(fs, sub_out) :
                        fs' = safe_clean_dir(fs, sub_out, kept)
                ELSE fs' = fs
           /\ cleaned_subdirs' = MarkCleaned(cleaned_subdirs, sub_out)
           /\ existing_map' =
                IF seeding
                  THEN [d \in DOMAIN existing_map \cup {sub_out} |->
                          IF d = sub_out
                            THEN collect_existing_basenames(FileNamesIn(fs', sub_out))
                            ELSE existing_map[d]]
                  ELSE existing_map
           /\ hist' = hist \o h1 \o h2
    /\ wpc' = "image"
    /\ UNCHANGED <<params, images, img_idx, cancel, rows, plan_pairs, ledger, stats, code,
                   finished>>
    /\ UNCHANGED <<fs0, pairs, pc, i, tmp_map, ok, fail, log>>
    /\ UNCHANGED <<pvars, svars, xvars>>

\* The image the loop is at, and its output sub-directory.
CurImage == images[img_idx]
CurSubOut == SubOut(params.out_root, CurImage)

\* rows.append([...]); continue
NextImage(row) ==
    /\ rows' = Append(rows, row)
    /\ img_idx' = img_idx + 1
    /\ wpc' = "top"

\* Image.open / exif_transpose raised (always so when the file is gone):
\* a READ_FAIL row, continue
ImgReadFail ==
    /\ wpc = "image"
    /\ NextImage(Row(CurImage, <<>>, <<>>, <<>>, "READ_FAIL"))
    /\ UNCHANGED <<params, images, cancel, cleaned_subdirs, existing_map, plan_pairs,
                   ledger, stats, code, progress, finished, hist>>
    /\ UNCHANGED <<rvars, pvars, svars, xvars>>

\* yolo.detect_for_image(img_path) raised, outside any inner try
ImgDetectRaise ==
    /\ wpc = "image"
    /\ Exists(fs, CurImage)
    /\ Fatal
    /\ hist' = Append(hist, Hist("detect_raise", CurImage.dir))
    /\ UNCHANGED <<params, images, img_idx, cancel, cleaned_subdirs, existing_map, rows,
                   plan_pairs, ledger, stats, progress, finished>>
    /\ UNCHANGED <<rvars, pvars, svars, xvars>>

\* if not target_boxes: a NO_DET row, continue
ImgNoDet ==
    /\ wpc = "image"
    /\ Exists(fs, CurImage)
    /\ NextImage(Row(CurImage, <<>>, <<>>, <<>>, "NO_DET"))
    /\ UNCHANGED <<params, images, cancel, cleaned_subdirs, existing_map, plan_pairs,
                   ledger, stats, code, progress, finished, hist>>
    /\ UNCHANGED <<rvars, pvars, svars, xvars>>

\* merge_boxes_xyxy / crop_by_xyxy raised, outside any inner try
ImgCropRaise ==
    /\ wpc = "image"
    /\ Exists(fs, CurImage)
    /\ Fatal
    /\ hist' = Append(hist, Hist("crop_raise", CurImage.dir))
    /\ UNCHANGED <<params, images, img_idx, cancel, cleaned_subdirs, existing_map, rows,
                   plan_pairs, ledger, stats, progress, finished>>
    /\ UNCHANGED <<rvars, pvars, svars, xvars>>

\* ocr.ocr(crop, p.prompt) raised, outside any inner try
ImgOcrRaise ==
    /\ wpc = "image"
    /\ Exists(fs, CurImage)
    /\ Fatal
    /\ hist' = Append(hist, Hist("ocr_raise", CurImage.dir))
    /\ UNCHANGED <<params, images, img_idx, cancel, cleaned_subdirs, existing_map, rows,
                   plan_pairs, ledger, stats, progress, finished>>
    /\ UNCHANGED <<rvars, pvars, svars, xvars>>

\* The crop was saved or its saving raised (except Exception: pass); the OCR
\* value is empty or an error value: a NO_TEXT row, continue
ImgNoText ==
    /\ wpc = "image"
    /\ Exists(fs, CurImage)
    /\ \E ocr_text \in OcrValues :
          /\ IsNoText(ocr_text)
          /\ NextImage(Row(CurImage, ocr_text, <<>>, <<>>, "NO_TEXT"))
    /\ UNCHANGED <<params, images, cancel, cleaned_subdirs, existing_map, plan_pairs,
                   ledger, stats, code, progress, finished, hist>>
    /\ UNCHANGED <<rvars, pvars, svars, xvars>>

\* base = sanitize_and_upper(ocr_text); final = plan_name(...);
\* plan_pairs.append((img_path, dst)); a PLANNED row
ImgPlanned ==
    /\ wpc = "image"
    /\ Exists(fs, CurImage)
    /\ \E ocr_text \in OcrValues :
          /\ ~IsNoText(ocr_text)
          /\ LET base  == sanitize_and_upper(ocr_text)
                 r     == plan_name(base, LowerStr(PathSuffix(CurImage.name)),
                                    existing_map[CurSubOut], params.duplicates)
                 final == r.ret
                 dst   == Path(CurSubOut, final)
             IN  /\ existing_map' = [existing_map EXCEPT ![CurSubOut] = r.existing]
                 /\ plan_pairs' = Append(plan_pairs, <<CurImage, dst>>)
                 /\ NextImage(Row(CurImage, ocr_text, base, final, "PLANNED"))
    /\ UNCHANGED <<params, images, cancel, cleaned_subdirs, ledger, stats, code, progress,
                   finished, hist>>
    /\ UNCHANGED <<rvars, pvars, svars, xvars>>

\* A run that goes to the commit without writing the ledger first.
WriteLedgerLater ==
    /\ wpc = "ledger"
    /\ wpc' = "commit"
    /\ UNCHANGED <<params, images, img_idx, cancel, cleaned_subdirs, existing_map, rows,
                   plan_pairs, ledger, stats, code, progress, finished, hist>>
    /\ UNCHANGED <<rvars, pvars, svars, xvars>>

\* write_mapping_csv(p.input_dir / "rename_mapping.csv", rows)
WriteLedger ==
    /\ wpc = "ledger"
    /\ ledger' = [written |-> TRUE, rows |-> rows]
    /\ wpc' = "commit"
    /\ UNCHANGED <<params, images, img_idx, cancel, cleaned_subdirs, existing_map, rows,
                   plan_pairs, stats, code, progress, finished, hist>>
    /\ UNCHANGED <<rvars, pvars, svars, xvars>>

\* write_mapping_csv raised (open or mkdir failed)
WriteLedgerRaise ==
    /\ wpc = "ledger"
    /\ Fatal
    /\ hist' = Append(hist, Hist("ledger_raise", <<>>))
    /\ UNCHANGED <<params, images, img_idx, cancel, cleaned_subdirs, existing_map, rows,
                   plan_pairs, ledger, stats, progress, finished>>
    /\ UNCHANGED <<rvars, pvars, svars, xvars>>

\* stats["planned"], stats["renamed_ok"], stats["renamed_fail"]
StatsAfter(o, f) ==
    [stats EXCEPT !.planned = Len(plan_pairs), !.renamed_ok = o, !.renamed_fail = f]

\* perform_batch_rename(plan_pairs, True): return (0, 0)
CommitDryRun ==
    /\ wpc = "commit"
    /\ params.dry_run
    /\ hist' = Append(hist, Hist("dry_run", <<>>))
    /\ stats' = StatsAfter(0, 0)
    /\ wpc' = "emit"
    /\ UNCHANGED <<params, images, img_idx, cancel, cleaned_subdirs, existing_map, rows,
                   plan_pairs, ledger, code, progress, finished>>
    /\ UNCHANGED <<rvars, pvars, svars, xvars>>

\* perform_batch_rename(plan_pairs, False): two_phase_rename(pairs) is entered
CommitStart ==
    /\ wpc = "commit"
    /\ ~params.dry_run
    /\ hist' = Append(hist, Hist("rename_call", <<>>))
    /\ pairs' = plan_pairs
    /\ fs0' = fs
    /\ pc' = "stage1"
    /\ i' = 1
    /\ tmp_map' = <<>>
    /\ ok' = 0
    /\ fail' = 0
    /\ log' = <<>>
    /\ wpc' = "renaming"
    /\ UNCHANGED <<params, images, img_idx, cancel, cleaned_subdirs, existing_map, rows,
                   plan_pairs, ledger, stats, code, progress, finished>>
    /\ UNCHANGED <<fs, pvars, svars, xvars>>

\* ok, fail = two_phase_rename(pairs) has returned
CommitDone ==
    /\ wpc = "renaming"
    /\ pc = "done"
    /\ stats' = StatsAfter(ok, fail)
    /\ wpc' = "emit"
    /\ UNCHANGED <<params, images, img_idx, cancel, cleaned_subdirs, existing_map, rows,
                   plan_pairs, ledger, code, progress, finished, hist>>
    /\ UNCHANGED <<rvars, pvars, svars, xvars>>

\* self.finished.emit(code, stats)
EmitFinished ==
    /\ wpc = "emit"
    /\ finished' = Append(finished, [code |-> code, stats |-> stats])
    /\ wpc' = "end"
    /\ UNCHANGED <<params, images, img_idx, cancel, cleaned_subdirs, existing_map, rows,
                   plan_pairs, ledger, stats, code, progress, hist>>
    /\ UNCHANGED <<rvars, pvars, svars, xvars>>

WorkerNext ==
    \/ RequestCancel
    \/ SetupRaise
    \/ ListEmpty
    \/ ListSome
    \/ LoopExhausted
    \/ LoopBreak
    \/ LoopEnter
    \/ ImgReadFail
    \/ ImgDetectRaise
    \/ ImgNoDet
    \/ ImgCropRaise
    \/ ImgOcrRaise
    \/ ImgNoText
    \/ ImgPlanned
    \/ WriteLedger
    \/ WriteLedgerRaise
    \/ CommitDryRun
    \/ CommitStart
    \/ Stage1Skip
    \/ Stage1Quarantine
    \/ Stage1Raise
    \/ Stage1End
    \/ Stage2Collision
    \/ Stage2Commit
    \/ Stage2Raise
    \/ Return
    \/ CommitDone
    \/ EmitFinished

SpecWorker == WorkerInit /\ [][WorkerNext]_vars

(***************************************************************************)
(* Claims about AiWorker.run                                               *)
(***************************************************************************)
PlanIndices == DOMAIN plan_pairs
PlanDst(k) == plan_pairs[k][2]

DestinationsDistinct ==
    \A j, k \in PlanIndices : j # k => PlanDst(j) # PlanDst(k)

\* C11 as stated: in every run, no two queued plans have the same
\* destination path.
C11_QueuedDestinationsDistinct == DestinationsDistinct

\* C11: in a run with duplicate numbering enabled, the stem of every queued
\* destination is in the index of its destination directory from the moment
\* the plan is queued, and no two queued plans have the same destination.
C11_ReservedAndDistinct ==
    params.duplicates =>
        /\ \A k \in PlanIndices :
              /\ PlanDst(k).dir \in DOMAIN existing_map
              /\ PathStem(PlanDst(k).name) \in existing_map[PlanDst(k).dir]
        /\ DestinationsDistinct

\* Two images with the same recognized text were planned into one directory
\* where neither destination exists, and got different names.
C11_Witness ==
    /\ params.duplicates
    /\ Len(plan_pairs) = 2
    /\ Len(rows) = 2
    /\ rows[1].base = rows[2].base
    /\ PlanDst(1).dir = PlanDst(2).dir
    /\ PlanDst(1) # PlanDst(2)
    /\ ~Exists(fs, PlanDst(1))
    /\ ~Exists(fs, PlanDst(2))
    /\ wpc = "top"

PlannedRows == {k \in DOMAIN rows : rows[k].status = "PLANNED"}

\* C12: an image whose recognized text sanitizes to the empty base is not
\* queued for renaming: no PLANNED row, hence no queued pair, has an empty
\* base.
C12_EmptyBaseNotQueued ==
    \A k \in PlannedRows : rows[k].base # <<>>

Statuses == {"READ_FAIL", "NO_DET", "NO_TEXT", "PLANNED"}

\* Every progress emission opens the visit of one image.
Visited == Len(progress)

HistOf(kinds) == {k \in DOMAIN hist : hist[k].ev \in kinds}

\* C15: outside an iteration in progress there is exactly one row per image
\* visited so far, the k-th row is the row of the k-th image and carries one
\* of the four statuses, and there are as many queued pairs as PLANNED rows.
C15_OneRowPerVisitedImage ==
    /\ wpc # "image" => Len(rows) = Visited
    /\ \A k \in DOMAIN rows :
          /\ rows[k].src_dir = images[k].dir
          /\ rows[k].old_name = images[k].name
          /\ rows[k].status \in Statuses
    /\ Len(plan_pairs) = Cardinality(PlannedRows)

\* C16: an error raised while one image is processed does not abort the
\* run: the exit code stays 0 and the image gets its row.
C16_PerImageErrorNotFatal ==
    HistOf({"detect_raise", "crop_raise", "ocr_raise"}) # {} =>
        /\ code = 0
        /\ Len(rows) >= Visited - (IF wpc = "image" THEN 1 ELSE 0)

\* C17: a run that found no image and finished with code 0 reports
\* total = 0 and has written the ledger with no data row.
C17_EmptyListingWritesLedger ==
    (wpc = "end" /\ images = <<>> /\ code = 0) =>
        /\ finished = <<[code |-> 0, stats |-> [stats EXCEPT !.total = 0]]>>
        /\ ledger = [written |-> TRUE, rows |-> <<>>]

\* The part of C18 about the counters and the renamer: a finished dry run
\* that reached the commit reports no rename and planned = M, and
\* two_phase_rename was never entered.
DryRunReportsNoRename ==
    (params.dry_run /\ wpc = "end") =>
        /\ pc = "idle" /\ log = <<>>
        /\ stats.renamed_ok = 0 /\ stats.renamed_fail = 0
        /\ code = 0 => stats.planned = Len(plan_pairs)

\* C18: when a dry run has finished, the counters report no rename, the
\* renamer was not entered, and every listed source image is still at its
\* original path with its content.
C18_DryRunMovesNothing ==
    /\ DryRunReportsNoRename
    /\ (params.dry_run /\ wpc = "end") =>
          \A k \in DOMAIN images :
              Exists(fs, images[k]) /\ fs[images[k]] = ImageContent(images[k])

\* C19: whenever two_phase_rename has been entered, the ledger is already
\* written with all the rows of the run, and a written ledger never changes
\* again, whatever the renames do.
C19_LedgerBeforeCommit ==
    /\ [](pc # "idle" => ledger = [written |-> TRUE, rows |-> rows])
    /\ [][ledger.written => ledger' = ledger]_vars

\* A run has finished whose ledger holds two rows and whose commit renamed
\* one image and failed on the other.
C19_Witness ==
    /\ wpc = "end"
    /\ ledger.written
    /\ Len(ledger.rows) = 2
    /\ stats.renamed_ok = 1
    /\ stats.renamed_fail = 1

\* C20: once the cancellation flag has been observed at the top of the loop,
\* the image that was in flight when cancellation was requested has its row,
\* no further image is visited, the queued plans stay as they were, and a
\* run whose ledger write does not fail ends with the ledger written and
\* the commit executed on exactly those plans.
C20_CancelKeepsPlans ==
    \A b \in HistOf({"break"}) :
        /\ \A c \in HistOf({"cancel"}) :
              /\ c < b
              /\ hist[b].nrows = hist[c].visited
              /\ hist[b].visited = hist[c].visited
        /\ Visited = hist[b].visited
        /\ Len(rows) = hist[b].nrows
        /\ Len(plan_pairs) = hist[b].nplans
        /\ wpc \notin {"top", "image"}
        /\ (wpc = "end" /\ HistOf({"ledger_raise"}) = {}) =>
              /\ code = 0
              /\ ledger = [written |-> TRUE, rows |-> rows]
              /\ stats.planned = Len(plan_pairs)
              /\ IF params.dry_run
                   THEN pc = "idle"
                   ELSE /\ pc = "done"
                        /\ pairs = plan_pairs
                        /\ Cardinality(EventsOf({"skip", "quarantine", "s1raise"})) = Len(pairs)

\* Cancellation was requested while the first of two images was in flight;
\* that image was planned, the second was never visited, and the run ended
\* with the ledger written and the one queued rename committed.
C20_Witness ==
    /\ wpc = "end"
    /\ Len(images) = 2
    /\ \E c \in HistOf({"cancel"}) : hist[c].visited = 1 /\ hist[c].nrows = 0
    /\ HistOf({"break"}) # {}
    /\ Visited = 1
    /\ Len(plan_pairs) = 1
    /\ ledger.written
    /\ stats.renamed_ok = 1

\* The queued plans whose destination is in directory d, among the first n.
PlansInto(d, n) == {k \in 1..n : PlanDst(k).dir = d}

\* C21: with clean-before-use enabled, every output sub-directory the run
\* has prepared was cleaned exactly once, before its duplicate index was
\* seeded and while no name was planned into it; the index of a
\* sub-directory is seeded once.
C21_CleanedOnceBeforeUse ==
    params.clean_out =>
        /\ \A d \in cleaned_subdirs :
              /\ Cardinality({k \in HistOf({"clean"}) : hist[k].dir = d}) = 1
              /\ Cardinality({k \in HistOf({"seed"}) : hist[k].dir = d}) = 1
        /\ \A k \in HistOf({"clean"}) :
              /\ hist[k].dir \in cleaned_subdirs
              /\ PlansInto(hist[k].dir, hist[k].nplans) = {}
              /\ \A j \in HistOf({"seed"}) : hist[j].dir = hist[k].dir => k < j
        /\ \A j \in HistOf({"seed"}) : PlansInto(hist[j].dir, hist[j].nplans) = {}

\* Two images of one sub-directory were visited and planned; the clean of
\* that sub-directory removed the file that was in it, once.
C21_Witness ==
    /\ params.clean_out
    /\ Visited = 2
    /\ Len(plan_pairs) = 2
    /\ PlanDst(1).dir = PlanDst(2).dir
    /\ PlanDst(1).dir = ExistingOut.dir
    /\ ~Exists(fs, ExistingOut)
    /\ Cardinality(HistOf({"clean"})) = 1
    /\ wpc = "top"

\* The rows of the images whose target region was detected.
DetectedRows == {k \in DOMAIN rows : rows[k].status \in {"NO_TEXT", "PLANNED"}}

\* C23: a row of a detected image has status NO_TEXT exactly when its OCR
\* value is empty or starts with the error marker; otherwise it is PLANNED,
\* carries the sanitized value as base, and its image is queued.
C23_NoTextIffEmptyOrError ==
    /\ \A k \in DetectedRows :
          rows[k].status = "NO_TEXT" <=>
              (rows[k].ocr_text = <<>> \/ StartsWith(rows[k].ocr_text, OcrErrorMarker))
    /\ \A k \in PlannedRows :
          /\ rows[k].base = sanitize_and_upper(rows[k].ocr_text)
          /\ \E j \in PlanIndices :
                /\ plan_pairs[j][1] = images[k]
                /\ PlanDst(j).name = rows[k].final_name
    /\ \A k \in DOMAIN rows \ PlannedRows :
          \A j \in PlanIndices : plan_pairs[j][1] # images[k]

\* An image for which the OCR client returned "UNKNOWN" is PLANNED and
\* queued under the name UNKNOWN-1, next to an image with an error value.
C23_Witness ==
    /\ Len(rows) = 2
    /\ rows[1].ocr_text = UNKNOWN
    /\ rows[1].status = "PLANNED"
    /\ PlanDst(1).name = UNKNOWN \o <<"-", "1">> \o PNG
    /\ StartsWith(rows[2].ocr_text, OcrErrorMarker)
    /\ rows[2].status = "NO_TEXT"

\* C24: one progress value per visited image; the values never decrease,
\* lie in 0..100, and the value of the last listed image is 100, in the run
\* and for every listing of up to MaxTotal images.
C24_ProgressMonotone ==
    /\ Visited = (IF wpc \in {"idle", "start"} THEN 0
                  ELSE IF wpc = "image" THEN Len(rows) + 1
                  ELSE IF HistOf({"detect_raise", "crop_raise", "ocr_raise"}) # {}
                         THEN Len(rows) + 1
                  ELSE Len(rows))
    /\ \A k \in DOMAIN progress :
          /\ progress[k] \in 0..100
          /\ k > 1 => progress[k - 1] <= progress[k]
          /\ k = Len(images) => progress[k] = 100
    /\ \A total \in 1..MaxTotal : \A idx \in 1..total :
          /\ ProgressValue(idx, total) \in 0..100
          /\ idx > 1 => ProgressValue(idx - 1, total) <= ProgressValue(idx, total)
          /\ idx = total => ProgressValue(idx, total) = 100

\* Both images of a listing of two were visited: 50, then 100.
C24_Witness ==
    /\ progress = <<50, 100>>
    /\ wpc = "end"
    /\ ~cancel

Stage1Events == EventsOf({"skip", "quarantine", "s1raise"})
Stage2Events == EventsOf({"commit", "rollback", "rollbackraise", "s2raise"})

\* C25: every stage-1 step of the batch is taken before any stage-2 step;
\* a quarantine name is in the directory of its source and differs from
\* every other quarantine name; when stage 2 starts, every quarantined file
\* is at its quarantine name and no longer at its original path.
C25_QuarantineBeforeCommit ==
    /\ \A j \in Stage1Events : \A k \in Stage2Events : j < k
    /\ Stage2Events # {} => Cardinality(Stage1Events) = Len(pairs)
    /\ pc = "stage1" => Stage2Events = {}
    /\ \A k \in EventsOf({"quarantine"}) :
          /\ log[k].orig.dir = log[k].src.dir
          /\ log[k].orig # log[k].src
    /\ \A j, k \in DOMAIN tmp_map : j # k => tmp_map[j].tmp # tmp_map[k].tmp
    /\ (pc = "stage2" /\ i = 1) =>
          \A k \in EventsOf({"quarantine"}) :
              /\ ~Exists(fs, log[k].src)
              /\ Exists(fs, log[k].orig)
              /\ fs[log[k].orig] = log[k].content

\* Stage 2 is about to start with two files in quarantine.
C25_Witness ==
    /\ pc = "stage2"
    /\ i = 1
    /\ Len(tmp_map) = 2
    /\ Cardinality(EventsOf({"quarantine"})) = 2
    /\ Stage2Events = {}

\* The suffix number of the name returned by the k-th call.
SuffixOf(k) ==
    CHOOSE n \in 1..(Cardinality(calls[k].before) + 1) :
        calls[k].ret = NumberedStem(sanitize_and_upper(calls[k].base), n)
                           \o LowerStr(calls[k].ext)

\* The names a sequence of calls returns when replayed from an index.
RECURSIVE Replay(_, _)
Replay(index, inputs) ==
    IF inputs = <<>> THEN <<>>
    ELSE LET r == plan_name(inputs[1].base, inputs[1].ext, index, TRUE)
         IN  <<r.ret>> \o Replay(r.existing, Tail(inputs))

C30_SearchBounded ==
    duplicates =>
        \A k \in DOMAIN calls :
            LET b == sanitize_and_upper(calls[k].base)
                n == FirstFree(b, 1, calls[k].before)
            IN  /\ n <= Cardinality(calls[k].before) + 1
                /\ Cardinality({NumberedStem(b, m) : m \in 1..(n - 1)}) = n - 1
                /\ {NumberedStem(b, m) : m \in 1..(n - 1)} \subseteq calls[k].before
                /\ NumberedStem(b, n) \notin calls[k].before
                /\ calls[k].ret = NumberedStem(b, n) \o LowerStr(calls[k].ext)

\* A call whose search passed as many candidates as the index has entries.
C30_Witness ==
    /\ duplicates
    /\ \E k \in DOMAIN calls :
          /\ Cardinality(calls[k].before) >= 3
          /\ FirstFree(sanitize_and_upper(calls[k].base), 1, calls[k].before)
                 = Cardinality(calls[k].before) + 1

\* A step of the run itself, as opposed to a cancellation request.
RunStep ==
    \/ SetupRaise \/ ListEmpty \/ ListSome \/ LoopExhausted \/ LoopBreak \/ LoopEnter
    \/ ImgReadFail \/ ImgDetectRaise \/ ImgNoDet \/ ImgCropRaise \/ ImgOcrRaise
    \/ ImgNoText \/ ImgPlanned \/ WriteLedger \/ WriteLedgerRaise \/ CommitDryRun
    \/ CommitStart \/ Stage1Skip \/ Stage1Quarantine \/ Stage1Raise \/ Stage1End
    \/ Stage2Collision \/ Stage2Commit \/ Stage2Raise \/ Return \/ CommitDone
    \/ EmitFinished

Raised == HistOf({"setup_raise", "detect_raise", "crop_raise", "ocr_raise", "ledger_raise"})

\* C28: the finished signal is emitted at most once, exactly when the run
\* ends, with the code and the stats of the run; the code is 1 when an
\* exception reached the try of run and 0 otherwise; until then the run
\* can always take a step, and after it the run changes nothing.
C28_FinishedExactlyOnce ==
    /\ [](/\ Len(finished) <= 1
          /\ Len(finished) = 1 <=> wpc = "end"
          /\ wpc = "end" =>
                /\ finished[1] = [code |-> code, stats |-> stats]
                /\ code = (IF Raised # {} THEN 1 ELSE 0)
          /\ wpc # "end" => ENABLED RunStep)
    /\ [][wpc = "end" => UNCHANGED <<rvars, wvars>>]_vars

\* Runs have ended on each of the four paths; this one was cancelled,
\* committed a rename and reported code 0.
C28_Witness ==
    /\ wpc = "end"
    /\ HistOf({"break"}) # {}
    /\ finished = <<[code |-> 0, stats |-> stats]>>
    /\ stats.renamed_ok = 1

(***************************************************************************)
(* AiTaskPage: the page that started the worker, and stop_and_wait         *)
(***************************************************************************)
\* The options of the runs the page is followed on.
PageParams ==
    [out_root : {InDir}, clean_out : {TRUE}, duplicates : {FALSE}, dry_run : BOOLEAN]

\* The state _start leaves: the worker is started, Start is disabled and
\* Stop enabled.
PageInit ==
    /\ params \in PageParams
    /\ images \in Listings
    /\ fs = [q \in Range(images) |-> ImageContent(q)]
    /\ wpc = "start"
    /\ img_idx = 0
    /\ cancel = FALSE
    /\ cleaned_subdirs = {}
    /\ existing_map = <<>>
    /\ rows = <<>>
    /\ plan_pairs = <<>>
    /\ ledger = [written |-> FALSE, rows |-> <<>>]
    /\ stats = [total |-> 0, planned |-> 0, renamed_ok |-> 0, renamed_fail |-> 0]
    /\ code = 0
    /\ progress = <<>>
    /\ finished = <<>>
    /\ hist = <<>>
    /\ page = [worker |-> TRUE, btn_start |-> FALSE, btn_stop |-> TRUE,
               waited |-> "no", delivered |-> 0,
               at |-> [wpc |-> "idle", visited |-> 0, observed |-> FALSE]]
    /\ fs0 = fs
    /\ pairs = <<>>
    /\ pc = "idle"
    /\ i = 1
    /\ tmp_map = <<>>
    /\ ok = 0
    /\ fail = 0
    /\ log = <<>>
    /\ folder = {}
    /\ existing = {}
    /\ duplicates = TRUE
    /\ calls = <<>>
    /\ SanitizerIdle
    /\ RunsIdle
    /\ ManualIdle

\* The worker has passed the top-of-loop test with the flag set, or has
\* left the loop.
FlagObserved == HistOf({"break"}) # {} \/ wpc \notin {"start", "top", "image"}

\* finally: btn_start.setEnabled(True); btn_stop.setEnabled(False);
\* self._worker = None
DropWorker(result) ==
    page' = [page EXCEPT !.worker = FALSE, !.btn_start = TRUE, !.btn_stop = FALSE,
                         !.waited = result,
                         !.at = [wpc |-> wpc, visited |-> Visited,
                                 observed |-> FlagObserved]]

\* _close_tab on a running page: stop_and_wait calls request_cancel and
\* enters self._worker.wait(ms); the GUI thread is blocked from here on.
StopAndWaitBegin ==
    /\ page.worker
    /\ page.waited = "no"
    /\ wpc # "end"
    /\ cancel' = TRUE
    /\ hist' = IF cancel THEN hist ELSE Append(hist, Hist("cancel", <<>>))
    /\ page' = [page EXCEPT !.waited = "waiting"]
    /\ UNCHANGED <<params, images, wpc, img_idx, cleaned_subdirs, existing_map, rows,
                   plan_pairs, ledger, stats, code, progress, finished>>
    /\ UNCHANGED <<runs, manual>>
    /\ UNCHANGED <<rvars, pvars, svars>>

\* wait(ms) returned because the worker ended in time
StopAndWaitJoined ==
    /\ page.waited = "waiting"
    /\ wpc = "end"
    /\ DropWorker("joined")
    /\ UNCHANGED <<runs, manual>>
    /\ UNCHANGED <<rvars, pvars, svars, wvars>>

\* A wait that ends the worker thread when ms has elapsed.
StopAndWaitKill ==
    /\ page.waited = "waiting"
    /\ wpc # "end"
    /\ DropWorker("timeout")
    /\ wpc' = "end"
    /\ UNCHANGED <<params, images, img_idx, cancel, cleaned_subdirs, existing_map, rows,
                   plan_pairs, ledger, stats, code, progress, finished, hist>>
    /\ UNCHANGED <<runs, manual>>
    /\ UNCHANGED <<rvars, pvars, svars>>

\* wait(ms) returned because ms elapsed; the worker is running
StopAndWaitTimeout ==
    /\ page.waited = "waiting"
    /\ wpc # "end"
    /\ DropWorker("timeout")
    /\ UNCHANGED <<runs, manual>>
    /\ UNCHANGED <<rvars, pvars, svars, wvars>>

\* _on_finished, run by the GUI thread of a page that is still there
OnFinished ==
    /\ page.waited = "no"
    /\ page.delivered < Len(finished)
    /\ page' = [page EXCEPT !.btn_start = TRUE, !.btn_stop = FALSE,
                            !.delivered = page.delivered + 1]
    /\ UNCHANGED <<runs, manual>>
    /\ UNCHANGED <<rvars, pvars, svars, wvars>>

PageNext ==
    \/ WorkerNext
    \/ StopAndWaitBegin
    \/ StopAndWaitJoined
    \/ StopAndWaitTimeout
    \/ OnFinished

SpecPage == PageInit /\ [][PageNext]_vars

ManualDir == "m"

\* The image files the chosen root may hold, in the order of list.sort().
ManualUniverse ==
    << Path(ManualDir, TAG \o <<"-", "2">> \o PNG),
       Path(ManualDir, TAG \o PNG),
       Path(ManualDir, <<"a">> \o PNG),
       Path(ManualDir, <<"p", "1", ".", "P", "N", "G">>) >>

RECURSIVE ManualSeqOf(_)
ManualSeqOf(S) ==
    IF S = {} THEN <<>>
    ELSE LET m == CHOOSE k \in S : \A j \in S : k <= j
         IN  <<ManualUniverse[m]>> \o ManualSeqOf(S \ {m})

ManualListings ==
    {ManualSeqOf(S) : S \in {T \in SUBSET DOMAIN ManualUniverse :
                                Cardinality(T) <= MaxManualImages}}

\* What _compose_base may return.
ManualBases == {<<"t", "a", "g">>, <<"a">>, <<"#">>}

\* The state _refresh_list leaves: the sorted listing, the cursor on the
\* first image, or -1 when there is none.
ManualInit ==
    /\ \E L \in ManualListings :
          /\ manual = [images |-> L, cur |-> IF L = <<>> THEN -1 ELSE 0, saves |-> <<>>]
          /\ fs = [q \in Range(L) |-> q.name]
    /\ fs0 = fs
    /\ pairs = <<>>
    /\ pc = "idle"
    /\ i = 1
    /\ tmp_map = <<>>
    /\ ok = 0
    /\ fail = 0
    /\ log = <<>>
    /\ folder = {}
    /\ existing = {}
    /\ duplicates = TRUE
    /\ calls = <<>>
    /\ SanitizerIdle
    /\ WorkerIdle
    /\ PageIdle
    /\ RunsIdle

\* if self._cur <= 0: return; self._cur -= 1
ManualPrev ==
    /\ manual.cur > 0
    /\ manual' = [manual EXCEPT !.cur = manual.cur - 1]
    /\ UNCHANGED <<page, runs>>
    /\ UNCHANGED <<rvars, pvars, svars, wvars>>

\* The cursor after next(): unchanged at the last image or on an empty list.
CursorAfterNext(m) ==
    IF m.cur >= 0 /\ m.cur + 1 < Len(m.images) THEN m.cur + 1 ELSE m.cur

\* next() on a cursor that moves
ManualNext ==
    /\ CursorAfterNext(manual) # manual.cur
    /\ manual' = [manual EXCEPT !.cur = CursorAfterNext(manual)]
    /\ UNCHANGED <<page, runs>>
    /\ UNCHANGED <<rvars, pvars, svars, wvars>>

\* cand = src.with_name(f"{base}-{n}{src.suffix.lower()}")
ManualCandidate(src, base, n) ==
    WithName(src, base \o <<"-">> \o DecimalStr(n) \o LowerStr(PathSuffix(src.name)))

\* A search that takes the first candidate without looking at the disk.
ManualFirstFreeUnchecked(f, src, base, n) == n

\* while True: if not cand.exists(): dst = cand; break; n += 1
RECURSIVE ManualFirstFree(_, _, _, _)
ManualFirstFree(f, src, base, n) ==
    IF ~Exists(f, ManualCandidate(src, base, n))
    THEN n
    ELSE ManualFirstFree(f, src, base, n + 1)

\* The destination save_and_next chooses for a non-empty base.
ManualDst(f, src, base) ==
    LET dst == WithName(src, base \o LowerStr(PathSuffix(src.name)))
    IN  IF Exists(f, dst) /\ dst # src
        THEN ManualCandidate(src, base, ManualFirstFree(f, src, base, 2))
        ELSE dst

ManualSaveRecord(src, dst, base, outcome) ==
    [src |-> src, dst |-> dst, base |-> base, before |-> DOMAIN fs, outcome |-> outcome]

\* save_and_next; src.rename(dst) succeeds, or base is empty and nothing is
\* renamed; then next()
ManualSave ==
    /\ manual.cur >= 0
    /\ Len(manual.saves) < MaxSaves
    /\ \E composed \in ManualBases :
          LET src  == manual.images[manual.cur + 1]
              base == sanitize_and_upper(composed)
              dst  == ManualDst(fs, src, base)
          IN  IF base # <<>>
              THEN /\ Exists(fs, src)
                   /\ fs' = IF dst = src THEN fs ELSE Rename(fs, src, dst)
                   /\ manual' =
                        [images |-> [manual.images EXCEPT ![manual.cur + 1] = dst],
                         cur    |-> CursorAfterNext(manual),
                         saves  |-> Append(manual.saves,
                                           ManualSaveRecord(src, dst, base, "renamed"))]
              ELSE /\ fs' = fs
                   /\ manual' =
                        [manual EXCEPT
                           !.cur = CursorAfterNext(manual),
                           !.saves = Append(manual.saves,
                                            ManualSaveRecord(src, src, base, "kept"))]
    /\ UNCHANGED <<fs0, pairs, pc, i, tmp_map, ok, fail, log>>
    /\ UNCHANGED <<page, runs>>
    /\ UNCHANGED <<pvars, svars, wvars>>

\* save_and_next; src.rename(dst) raised: except Exception; then next()
ManualSaveRaise ==
    /\ manual.cur >= 0
    /\ Len(manual.saves) < MaxSaves
    /\ \E composed \in ManualBases :
          LET src  == manual.images[manual.cur + 1]
              base == sanitize_and_upper(composed)
              dst  == ManualDst(fs, src, base)
          IN  /\ base # <<>>
              /\ manual' =
                   [manual EXCEPT
                      !.cur = CursorAfterNext(manual),
                      !.saves = Append(manual.saves,
                                       ManualSaveRecord(src, dst, base, "raised"))]
    /\ UNCHANGED <<page, runs>>
    /\ UNCHANGED <<rvars, pvars, svars, wvars>>

ManualStep ==
    \/ ManualPrev
    \/ ManualNext
    \/ ManualSave
    \/ ManualSaveRaise

SpecManual == ManualInit /\ [][ManualStep]_vars

\* The saves that chose a destination.
ManualRenames ==
    {k \in DOMAIN manual.saves : manual.saves[k].outcome \in {"renamed", "raised"}}

\* C29: the destination of a save is the source itself or a path where no
\* file was; it is base+ext unless that path held another file, and then
\* base-n+ext for the least n >= 2 whose path held no file; every listed
\* image is still on disk with its content; the cursor is within the list,
\* and -1 exactly when the list is empty.
C29_ManualSaveNeverOverwrites ==
    /\ \A k \in ManualRenames :
          LET s     == manual.saves[k]
              ext   == LowerStr(PathSuffix(s.src.name))
              plain == WithName(s.src, s.base \o ext)
              C(n)  == WithName(s.src, s.base \o <<"-">> \o DecimalStr(n) \o ext)
          IN  /\ s.base # <<>>
              /\ s.dst = s.src \/ s.dst \notin s.before
              /\ IF plain \in s.before /\ plain # s.src
                   THEN \E n \in 2..(Cardinality(s.before) + 2) :
                           /\ s.dst = C(n)
                           /\ C(n) \notin s.before
                           /\ \A m \in 2..(n - 1) : C(m) \in s.before
                   ELSE s.dst = plain
    /\ {fs[q] : q \in DOMAIN fs} = {fs0[q] : q \in DOMAIN fs0}
    /\ Cardinality(DOMAIN fs) = Cardinality(DOMAIN fs0)
    /\ DOMAIN fs = Range(manual.images)
    /\ IF manual.images = <<>>
         THEN manual.cur = -1
         ELSE manual.cur \in 0..(Len(manual.images) - 1)

\* TAG.png and TAG-2.png were there; saving a third image under TAG made it
\* TAG-3.png, and the cursor has moved on and come back.
C29_Witness ==
    /\ Len(manual.images) = 3
    /\ \E k \in ManualRenames :
          /\ manual.saves[k].outcome = "renamed"
          /\ manual.saves[k].dst = Path(ManualDir, TAG \o <<"-", "3">> \o PNG)
          /\ Path(ManualDir, TAG \o PNG) \in manual.saves[k].before
          /\ Path(ManualDir, TAG \o <<"-", "2">> \o PNG) \in manual.saves[k].before
    /\ Exists(fs, Path(ManualDir, TAG \o <<"-", "3">> \o PNG))
    /\ manual.cur = 0

(***************************************************************************)
(* Two AiWorker runs, started from two AI tabs, on one filesystem          *)
(***************************************************************************)
RunIds == {1, 2}

\* Each run lists one image below a first-level directory "a" of its own
\* input directory.
RunInDir(r) == IF r = 1 THEN <<"in1">> ELSE <<"in2">>
RunImage(r) ==
    IF r = 1 THEN Path(<<"in1", "a">>, <<"p", "1">> \o PNG)
             ELSE Path(<<"in2", "a">>, <<"p", "2">> \o PNG)
RunContent(q) ==
    CASE q = RunImage(1)  -> "content-1"
      [] q = RunImage(2)  -> "content-2"
      [] q = ExistingOut  -> "content-e"

\* The output base paths typed into the two pages: run 1 uses out, run 2
\* the same directory or one of its own.
RunOutRoots(r) == IF r = 1 THEN {<<"out">>} ELSE {<<"out">>, <<"out2">>}

\* sub_out = out_base / f"{first}_output"
RunSubOut(r) == runs[r].out_root \o <<OutputName(FirstOf(RunInDir(r), RunImage(r).dir))>>

TwoRunsInit ==
    /\ \E o \in RunOutRoots(2), c \in [RunIds -> BOOLEAN], t \in [RunIds -> {TAG, UNKNOWN}] :
          runs = [r \in RunIds |->
                    [pc |-> "start", out_root |-> IF r = 1 THEN <<"out">> ELSE o,
                     clean_out |-> c[r], text |-> t[r], index |-> {},
                     dst |-> NoPath, tmp |-> NoPath, committed |-> {}]]
    /\ \E E \in SUBSET {ExistingOut} :
          fs = [q \in {RunImage(1), RunImage(2)} \cup E |-> RunContent(q)]
    /\ fs0 = fs
    /\ pairs = <<>>
    /\ pc = "idle"
    /\ i = 1
    /\ tmp_map = <<>>
    /\ ok = 0
    /\ fail = 0
    /\ log = <<>>
    /\ folder = {}
    /\ existing = {}
    /\ duplicates = TRUE
    /\ calls = <<>>
    /\ SanitizerIdle
    /\ WorkerIdle
    /\ PageIdle
    /\ ManualIdle

\* The rename variables other than the filesystem, and everything that is
\* not a run.
RunFrame ==
    /\ UNCHANGED <<fs0, pairs, pc, i, tmp_map, ok, fail, log>>
    /\ UNCHANGED <<page, manual>>
    /\ UNCHANGED <<pvars, svars, wvars>>

\* The head of the iteration of run r: the one-time clean of sub_out when
\* clean_out is set, then existing_map[sub_out] = collect_existing_basenames
TwoRunsPrepare ==
    \E r \in RunIds :
        /\ runs[r].pc = "start"
        /\ fs' = IF runs[r].clean_out THEN safe_clean_dir(fs, RunSubOut(r), {}) ELSE fs
        /\ runs' = [runs EXCEPT
                      ![r].pc = "image",
                      ![r].index = collect_existing_basenames(FileNamesIn(fs', RunSubOut(r)))]
        /\ RunFrame

\* final = plan_name(base, suffix, existing_map[sub_out], True); the pair is
\* queued
TwoRunsPlan ==
    \E r \in RunIds :
        /\ runs[r].pc = "image"
        /\ LET res == plan_name(sanitize_and_upper(runs[r].text),
                                LowerStr(PathSuffix(RunImage(r).name)),
                                runs[r].index, TRUE)
           IN  runs' = [runs EXCEPT ![r].pc = "stage1",
                                    ![r].index = res.existing,
                                    ![r].dst = Path(RunSubOut(r), res.ret)]
        /\ UNCHANGED fs
        /\ RunFrame

\* two_phase_rename of run r, stage 1: src.rename(tmp)
TwoRunsQuarantine ==
    \E r \in RunIds :
        /\ runs[r].pc = "stage1"
        /\ LET tmp == TmpPath(r, RunImage(r))
           IN  /\ fs' = Rename(fs, RunImage(r), tmp)
               /\ runs' = [runs EXCEPT ![r].pc = "stage2", ![r].tmp = tmp]
        /\ RunFrame

\* stage 1: src.rename(tmp) raised; the pair is dropped and the run ends
TwoRunsQuarantineRaise ==
    \E r \in RunIds :
        /\ runs[r].pc = "stage1"
        /\ runs' = [runs EXCEPT ![r].pc = "done"]
        /\ UNCHANGED fs
        /\ RunFrame

\* stage 2: dst.exists() answered False; the rename has not happened yet, so
\* the other run may act in between
TwoRunsDstFree ==
    \E r \in RunIds :
        /\ runs[r].pc = "stage2"
        /\ ~Exists(fs, runs[r].dst)
        /\ runs' = [runs EXCEPT ![r].pc = "rename"]
        /\ UNCHANGED fs
        /\ RunFrame

\* stage 2: tmp.rename(dst); ok += 1.  Where rename replaces an existing
\* file (POSIX) a destination created since the test is replaced.
TwoRunsCommit ==
    \E r \in RunIds :
        /\ runs[r].pc = "rename"
        /\ fs' = Rename(fs, runs[r].tmp, runs[r].dst)
        /\ runs' = [runs EXCEPT
                      ![r].pc = "done",
                      ![r].committed = {[path |-> runs[r].dst, content |-> fs[runs[r].tmp]]}]
        /\ RunFrame

\* stage 2: tmp.rename(dst) raised (always possible; on Windows whenever
\* the destination exists by now); fail += 1
TwoRunsCommitRaise ==
    \E r \in RunIds :
        /\ runs[r].pc = "rename"
        /\ runs' = [runs EXCEPT ![r].pc = "done"]
        /\ UNCHANGED fs
        /\ RunFrame

\* stage 2: dst exists; fail += 1 and the rollback tmp.rename(orig), which
\* succeeds or raises
TwoRunsCollision ==
    \E r \in RunIds :
        /\ runs[r].pc = "stage2"
        /\ Exists(fs, runs[r].dst)
        /\ \/ fs' = Rename(fs, runs[r].tmp, RollbackTarget(runs[r].tmp, runs[r].dst))
           \/ fs' = fs
        /\ runs' = [runs EXCEPT ![r].pc = "done"]
        /\ RunFrame

TwoRunsNext ==
    \/ TwoRunsPrepare
    \/ TwoRunsPlan
    \/ TwoRunsQuarantine
    \/ TwoRunsQuarantineRaise
    \/ TwoRunsDstFree
    \/ TwoRunsCommit
    \/ TwoRunsCollision
    \/ TwoRunsCommitRaise

SpecTwoRuns == TwoRunsInit /\ [][TwoRunsNext]_vars

\* C22: a file a run has committed into a destination sub-directory stays
\* there with its content whatever the other run does, and the two runs
\* never plan the same destination path.
C22_ExclusiveOwnership ==
    /\ \A r \in RunIds : \A c \in runs[r].committed :
          Exists(fs, c.path) /\ fs[c.path] = c.content
    /\ (runs[1].dst # NoPath /\ runs[2].dst # NoPath) => runs[1].dst # runs[2].dst

\* The same, for two runs whose output base paths differ.
C22_DisjointOutputsAreSafe ==
    runs[1].out_root # runs[2].out_root => C22_ExclusiveOwnership

====
